---- MODULE Spec2Model ----
(***************************************************************************)
(* A model of src/pounding_the_rock.py: the RSS article cache              *)
(* (fetch_and_parse_rss), the game-result extraction                       *)
(* (extract_game_results, normalize_team_name) and the handlers that call  *)
(* them (get_latest_articles, get_recent_game_results, get_recent_results).*)
(*                                                                         *)
(* Texts are TLA+ strings and are matched character by character.  The     *)
(* regular expressions of the source are sequences of pieces (a literal, a *)
(* run of a character class, an optional or repeated group) matched over   *)
(* the positions 1..Len(s)+1 of the text with the preferences of Python's  *)
(* re module: leftmost start, alternatives in the order written, greedy    *)
(* quantifiers that give back what the rest of the pattern needs.  The     *)
(* only white-space character of the modelled texts is the blank, and the  *)
(* character "~" stands for the en dash U+2013 of the score patterns (the  *)
(* module is ASCII).  Intermediate values are passed as operator arguments *)
(* rather than bound by LET.                                               *)
(***************************************************************************)
EXTENDS Integers, Sequences, FiniteSets, TLC

(***************************************************************************)
(* Optional values: Python's None is <<>>, a value v is <<v>>.             *)
(***************************************************************************)
None == <<>>
Some(v) == <<v>>
IsNone(o) == o = <<>>
Val(o) == o[1]

\* Python truthiness of an optional string: None and "" are false.
Truthy(o) == o # <<>> /\ o[1] # ""

\* the string an f-string formats an optional string as
OrNone(o) == IF o = <<>> THEN "None" ELSE o[1]

(***************************************************************************)
(* Characters and strings.                                                 *)
(***************************************************************************)
Ch(s, i) == SubSeq(s, i, i)

DigitChars == {"0", "1", "2", "3", "4", "5", "6", "7", "8", "9"}
UpperChars == {"A", "B", "C", "D", "E", "F", "G", "H", "I", "J", "K", "L", "M",
               "N", "O", "P", "Q", "R", "S", "T", "U", "V", "W", "X", "Y", "Z"}
LowerChars == {"a", "b", "c", "d", "e", "f", "g", "h", "i", "j", "k", "l", "m",
               "n", "o", "p", "q", "r", "s", "t", "u", "v", "w", "x", "y", "z"}
\* \w of the re module
WordChars == DigitChars \cup UpperChars \cup LowerChars \cup {"_"}
\* \s of the re module, on the modelled texts
SpaceChars == {" "}
EnDash == "~"
\* [-–]
DashChars == {"-", EnDash}
\* [,\s]
CommaSpaceChars == {","} \cup SpaceChars

LowerOf ==
  [c \in UpperChars |->
     CASE c = "A" -> "a" [] c = "B" -> "b" [] c = "C" -> "c" [] c = "D" -> "d"
       [] c = "E" -> "e" [] c = "F" -> "f" [] c = "G" -> "g" [] c = "H" -> "h"
       [] c = "I" -> "i" [] c = "J" -> "j" [] c = "K" -> "k" [] c = "L" -> "l"
       [] c = "M" -> "m" [] c = "N" -> "n" [] c = "O" -> "o" [] c = "P" -> "p"
       [] c = "Q" -> "q" [] c = "R" -> "r" [] c = "S" -> "s" [] c = "T" -> "t"
       [] c = "U" -> "u" [] c = "V" -> "v" [] c = "W" -> "w" [] c = "X" -> "x"
       [] c = "Y" -> "y" [] c = "Z" -> "z"]

LowerCh(c) == IF c \in UpperChars THEN LowerOf[c] ELSE c

RECURSIVE Lower(_)
\* str.lower(), one half of the string after the other
Lower(s) ==
  IF Len(s) = 0 THEN ""
  ELSE IF Len(s) = 1 THEN LowerCh(s)
  ELSE Lower(SubSeq(s, 1, Len(s) \div 2)) \o Lower(SubSeq(s, Len(s) \div 2 + 1, Len(s)))

\* s[i:i+len(lit)] == lit
LitAt(s, i, lit) == i + Len(lit) - 1 <= Len(s) /\ SubSeq(s, i, i + Len(lit) - 1) = lit

\* needle in hay
Contains(hay, needle) == \E i \in 1..(Len(hay) - Len(needle) + 1) : LitAt(hay, i, needle)

MaxOf(S) == CHOOSE m \in S : \A k \in S : k <= m
MinOf(S) == CHOOSE m \in S : \A k \in S : m <= k

\* the positions from i on at which needle occurs in hay
FoundFrom(hay, needle, i) == {j \in i..(Len(hay) - Len(needle) + 1) : LitAt(hay, j, needle)}

RECURSIVE CountFrom(_, _, _)
CountFrom(hay, needle, i) ==
  IF FoundFrom(hay, needle, i) = {} THEN 0
  ELSE 1 + CountFrom(hay, needle, MinOf(FoundFrom(hay, needle, i)) + Len(needle))

\* hay.count(needle), for a non-empty needle: non-overlapping occurrences
Count(hay, needle) == CountFrom(hay, needle, 1)

\* str.strip() of a captured group: the groups of the source's patterns begin and
\* end with a \w character, so there is nothing to strip.
RECURSIVE StripLeft(_)
StripLeft(s) == IF s # "" /\ Ch(s, 1) \in SpaceChars THEN StripLeft(SubSeq(s, 2, Len(s))) ELSE s
RECURSIVE StripRight(_)
StripRight(s) ==
  IF s # "" /\ Ch(s, Len(s)) \in SpaceChars THEN StripRight(SubSeq(s, 1, Len(s) - 1)) ELSE s
Strip(s) == StripRight(StripLeft(s))

DigitVal(c) ==
  CASE c = "0" -> 0 [] c = "1" -> 1 [] c = "2" -> 2 [] c = "3" -> 3 [] c = "4" -> 4
    [] c = "5" -> 5 [] c = "6" -> 6 [] c = "7" -> 7 [] c = "8" -> 8 [] c = "9" -> 9

RECURSIVE ParseInt(_)
\* int(s) of a string of decimal digits
ParseInt(s) ==
  IF s = "" THEN 0
  ELSE 10 * ParseInt(SubSeq(s, 1, Len(s) - 1)) + DigitVal(Ch(s, Len(s)))

DigitStr(d) ==
  CASE d = 0 -> "0" [] d = 1 -> "1" [] d = 2 -> "2" [] d = 3 -> "3" [] d = 4 -> "4"
    [] d = 5 -> "5" [] d = 6 -> "6" [] d = 7 -> "7" [] d = 8 -> "8" [] d = 9 -> "9"

RECURSIVE FormatInt(_)
\* str(n) of a non-negative int, as the f-string formats it
FormatInt(n) == IF n < 10 THEN DigitStr(n) ELSE FormatInt(n \div 10) \o DigitStr(n % 10)

(***************************************************************************)
(* Regular expressions.  A pattern is a sequence of pieces; MatchFrom      *)
(* matches them one after the other from a position of the text, as the re *)
(* module does: a piece is tried at its longest first (every quantifier of *)
(* the source is greedy) and shortened until the pieces after it match.    *)
(* Literals are compared with the lower-cased text (re.IGNORECASE).        *)
(***************************************************************************)
Lit(w) == [kind |-> "lit", words |-> {w}]
\* an alternation of literals (?:a|b|c)
OneOf(ws) == [kind |-> "lit", words |-> ws]
\* C+ and C* for a character class C, [^C]* for its complement
Plus(C) == [kind |-> "run", chars |-> C, negated |-> FALSE, least |-> 1]
Star(C) == [kind |-> "run", chars |-> C, negated |-> FALSE, least |-> 0]
StarNot(C) == [kind |-> "run", chars |-> C, negated |-> TRUE, least |-> 0]
\* (...) or (?:...): the pieces one after the other
Group(pieces) == [kind |-> "repeat", pieces |-> pieces, least |-> 1, most |-> 1]
\* (?:...)?
Opt(pieces) == [kind |-> "repeat", pieces |-> pieces, least |-> 0, most |-> 1]
\* (?:...){0,2}
UpToTwo(pieces) == [kind |-> "repeat", pieces |-> pieces, least |-> 0, most |-> 2]

\* the position after the longest run from i of characters in C (not in C when
\* negated)
RunEnd(s, i, C, negated) ==
  CHOOSE j \in i..(Len(s) + 1) :
    /\ j = Len(s) + 1 \/ ((Ch(s, j) \in C) = negated)
    /\ \A m \in i..(j - 1) : (Ch(s, m) \in C) # negated

RECURSIVE Ends(_, _, _, _)
RECURSIVE SeqEnds(_, _, _, _)
RECURSIVE RepeatEnds(_, _, _, _, _)

\* every position at which the piece can end when it begins at p
Ends(s, tl, p, piece) ==
  CASE piece.kind = "lit" -> {p + Len(w) : w \in {x \in piece.words : LitAt(tl, p, x)}}
    [] piece.kind = "run" -> (p + piece.least)..RunEnd(s, p, piece.chars, piece.negated)
    [] piece.kind = "repeat" ->
         UNION {RepeatEnds(s, tl, p, piece.pieces, n) : n \in piece.least..piece.most}

\* every position at which the pieces, one after the other, can end
SeqEnds(s, tl, p, pieces) ==
  IF pieces = <<>> THEN {p}
  ELSE UNION {SeqEnds(s, tl, e, Tail(pieces)) : e \in Ends(s, tl, p, Head(pieces))}

\* every position at which n rounds of the pieces can end
RepeatEnds(s, tl, p, pieces, n) ==
  IF n = 0 THEN {p}
  ELSE UNION {RepeatEnds(s, tl, e, pieces, n - 1) : e \in SeqEnds(s, tl, p, pieces)}

\* the match that begins at p and goes on with the preferred one of rests, the
\* matches of the later pieces: the one that begins latest
Prefer(p, rests) ==
  IF rests = {} THEN <<>>
  ELSE <<p>> \o (CHOOSE r \in rests : \A q \in rests : q[1] <= r[1])

RECURSIVE MatchFrom(_, _, _, _)
\* the match of the pieces from p that the re module finds: the positions
\* <<p1, ..., pn, end>> at which the pieces begin and the match ends, or <<>>
MatchFrom(s, tl, p, pieces) ==
  IF pieces = <<>> THEN <<p>>
  ELSE Prefer(p, {MatchFrom(s, tl, e, Tail(pieces)) : e \in Ends(s, tl, p, Head(pieces))}
                   \ {<<>>})

(***************************************************************************)
(* A pattern of the source is one or two alternatives a|b, each a sequence *)
(* of pieces; caps[g] is the piece that is group g of match.groups(), 0    *)
(* for a group of the other alternative.                                   *)
(***************************************************************************)
Alt(pieces, caps) == [pieces |-> pieces, caps |-> caps]

\* the first alternative, in the order written, that matches at i; 0 when none
AltAt(s, tl, i, alts) ==
  IF \E a \in DOMAIN alts : MatchFrom(s, tl, i, alts[a].pieces) # <<>>
  THEN MinOf({a \in DOMAIN alts : MatchFrom(s, tl, i, alts[a].pieces) # <<>>})
  ELSE 0

NoMatch == [matched |-> FALSE]

\* the match object: groups() and group(0)
MatchObject(s, alt, at) ==
  [matched |-> TRUE,
   groups |-> [g \in DOMAIN alt.caps |->
                 IF alt.caps[g] = 0 THEN None
                 ELSE Some(SubSeq(s, at[alt.caps[g]], at[alt.caps[g] + 1] - 1))],
   whole |-> SubSeq(s, at[1], at[Len(at)] - 1)]

MatchAt(s, tl, i, alts, a) == MatchObject(s, alts[a], MatchFrom(s, tl, i, alts[a].pieces))

SearchFrom(s, tl, alts, starts) ==
  IF starts = {} THEN NoMatch
  ELSE MatchAt(s, tl, MinOf(starts), alts, AltAt(s, tl, MinOf(starts), alts))

SearchLower(s, tl, alts) ==
  SearchFrom(s, tl, alts, {i \in 1..Len(s) : AltAt(s, tl, i, alts) # 0})

\* re.search(pattern, s, re.IGNORECASE): the match at the leftmost position at
\* which the pattern matches
Search(s, alts) == SearchLower(s, Lower(s), alts)

(***************************************************************************)
(* The patterns of extract_game_results.                                   *)
(***************************************************************************)
\* (?:Spurs|San Antonio)
OwnTeam == OneOf({"spurs", "san antonio"})
\* \s+ and \s*
Spaces == Plus(SpaceChars)
AnySpaces == Star(SpaceChars)
\* (\d+)
Number == Plus(DigitChars)
\* (\w+(?:\s+\w+)?)
TeamName == Group(<<Plus(WordChars), Opt(<<Spaces, Plus(WordChars)>>)>>)
\* [-–]
Dash == OneOf(DashChars)
\* (?:vs\.?|versus|@|at)
Versus == OneOf({"vs.", "vs", "versus", "@", "at"})

\* (?:Spurs|San Antonio)\s+(\d+)[,\s]+(\w+(?:\s+\w+)?)\s+(\d+)
\*   |(\w+(?:\s+\w+)?)\s+(\d+)[,\s]+(?:Spurs|San Antonio)\s+(\d+)
pattern1 ==
  <<Alt(<<OwnTeam, Spaces, Number, Plus(CommaSpaceChars), TeamName, Spaces, Number>>,
        <<3, 5, 7, 0, 0, 0>>),
    Alt(<<TeamName, Spaces, Number, Plus(CommaSpaceChars), OwnTeam, Spaces, Number>>,
        <<0, 0, 0, 1, 3, 7>>)>>

\* [Ff]inal\s+[Ss]core:?\s+
FinalScore == <<Lit("final"), Spaces, Lit("score"), Opt(<<Lit(":")>>), Spaces>>

\* [Ff]inal\s+[Ss]core:?\s+(?:(\w+(?:\s+\w+)?)\s+(\d+)[-–]\s*(\d+)\s+(?:Spurs|San Antonio)
\*   |(?:Spurs|San Antonio)\s+(\d+)[-–]\s*(\d+)\s+(\w+(?:\s+\w+)?))
pattern2 ==
  <<Alt(FinalScore \o <<TeamName, Spaces, Number, Dash, AnySpaces, Number, Spaces, OwnTeam>>,
        <<6, 8, 11, 0, 0, 0>>),
    Alt(FinalScore \o <<OwnTeam, Spaces, Number, Dash, AnySpaces, Number, Spaces, TeamName>>,
        <<0, 0, 0, 8, 11, 13>>)>>

\* (\w+(?:\s+\w+)?)\s+to\s+a\s+(\d+)[-–]\s*(\d+)\s+win\s+(?:\w+\s+){0,2}(?:over|against)\s+
\*   (?:the\s+)?(?:Spurs|San Antonio)
pattern3 ==
  <<Alt(<<TeamName, Spaces, Lit("to"), Spaces, Lit("a"), Spaces, Number, Dash, AnySpaces,
          Number, Spaces, Lit("win"), Spaces, UpToTwo(<<Plus(WordChars), Spaces>>),
          OneOf({"over", "against"}), Spaces, Opt(<<Lit("the"), Spaces>>), OwnTeam>>,
        <<1, 7, 10>>)>>

\* (?:Spurs|San Antonio)\s+(?:vs\.?|versus|@|at)\s+(\w+(?:\s+\w+)?)[^0-9]*(\d+)[-–]\s*(\d+)
\*   |(\w+(?:\s+\w+)?)\s+(?:vs\.?|versus|@|at)\s+(?:Spurs|San Antonio)[^0-9]*(\d+)[-–]\s*(\d+)
pattern4 ==
  <<Alt(<<OwnTeam, Spaces, Versus, Spaces, TeamName, StarNot(DigitChars), Number, Dash,
          AnySpaces, Number>>,
        <<5, 7, 10, 0, 0, 0>>),
    Alt(<<TeamName, Spaces, Versus, Spaces, OwnTeam, StarNot(DigitChars), Number, Dash,
          AnySpaces, Number>>,
        <<0, 0, 0, 1, 7, 10>>)>>

(***************************************************************************)
(* The team registry of extract_game_results.                              *)
(***************************************************************************)
nba_teams ==
  <<"76ers", "Bucks", "Bulls", "Cavaliers", "Celtics", "Clippers", "Grizzlies",
    "Hawks", "Heat", "Hornets", "Jazz", "Kings", "Knicks", "Lakers", "Magic",
    "Mavericks", "Nets", "Nuggets", "Pacers", "Pelicans", "Pistons", "Raptors",
    "Rockets", "Spurs", "Suns", "Thunder", "Timberwolves", "Trail Blazers",
    "Warriors", "Wizards">>

City(c, t) == [city |-> c, teams |-> <<t>>, is_list |-> FALSE]

\* the dict in insertion order; is_list is isinstance(team, list)
team_cities ==
  <<City("Philadelphia", "76ers"), City("Milwaukee", "Bucks"), City("Chicago", "Bulls"),
    City("Cleveland", "Cavaliers"), City("Boston", "Celtics"),
    [city |-> "Los Angeles", teams |-> <<"Clippers", "Lakers">>, is_list |-> TRUE],
    City("Memphis", "Grizzlies"), City("Atlanta", "Hawks"), City("Miami", "Heat"),
    City("Charlotte", "Hornets"), City("Utah", "Jazz"), City("Sacramento", "Kings"),
    City("New York", "Knicks"), City("Orlando", "Magic"), City("Dallas", "Mavericks"),
    City("Brooklyn", "Nets"), City("Denver", "Nuggets"), City("Indiana", "Pacers"),
    City("New Orleans", "Pelicans"), City("Detroit", "Pistons"), City("Toronto", "Raptors"),
    City("Houston", "Rockets"), City("San Antonio", "Spurs"), City("Phoenix", "Suns"),
    City("Oklahoma City", "Thunder"), City("Minnesota", "Timberwolves"),
    City("Portland", "Trail Blazers"), City("Golden State", "Warriors"),
    City("Washington", "Wizards")>>

\* team.lower() and city.lower() of the registry entries
TeamLower == [k \in DOMAIN nba_teams |-> Lower(nba_teams[k])]
CityLower == [k \in DOMAIN team_cities |-> Lower(team_cities[k].city)]

\* the first index of a loop `for x in seq: if hit(x): ...; break`, 0 when none
FirstIndex(hits) == IF hits = {} THEN 0 ELSE MinOf(hits)

(***************************************************************************)
(* normalize_team_name                                                     *)
(***************************************************************************)
\* the loop over nba_teams without its return at the first hit: the last team
\* of the list that hits
LastTeamNamed(rl) ==
  IF \E k \in DOMAIN nba_teams : TeamLower[k] = rl \/ Contains(rl, TeamLower[k])
  THEN MaxOf({k \in DOMAIN nba_teams : TeamLower[k] = rl \/ Contains(rl, TeamLower[k])})
  ELSE 0

\* for team in nba_teams: if team.lower() == raw_name.lower() or team.lower() in ...
TeamNamed(rl) ==
  FirstIndex({k \in DOMAIN nba_teams : TeamLower[k] = rl \/ Contains(rl, TeamLower[k])})

\* for city, team in team_cities.items(): if city.lower() == raw_name.lower() or ...
CityNamed(rl) ==
  FirstIndex({k \in DOMAIN team_cities : CityLower[k] = rl \/ Contains(rl, CityLower[k])})

\* the captured token used as it is, without the registry
KeepRawName(raw_name) == IF raw_name = "" THEN "Unknown" ELSE raw_name

normalize_team_name(raw_name) ==
  IF raw_name = "" THEN "Unknown"
  ELSE IF TeamNamed(Lower(raw_name)) # 0 THEN nba_teams[TeamNamed(Lower(raw_name))]
  ELSE IF CityNamed(Lower(raw_name)) # 0
  THEN team_cities[CityNamed(Lower(raw_name))].teams[1]
  ELSE raw_name

(***************************************************************************)
(* extract_game_results: the score patterns                                *)
(***************************************************************************)
\* [pattern1, pattern2, pattern3, pattern4], the list the loop enumerates from 1
ScorePatterns == <<pattern1, pattern2, pattern3, pattern4>>

Scores(spurs, opp, raw) ==
  [spurs_score |-> spurs, opponent_score |-> opp, opponent_raw |-> raw]

\* the branch `if pattern_num == 1`
FromPattern1(groups) ==
  IF Truthy(groups[1])
  THEN Scores(ParseInt(Val(groups[1])), ParseInt(Val(groups[3])), Strip(Val(groups[2])))
  ELSE Scores(ParseInt(Val(groups[6])), ParseInt(Val(groups[5])), Strip(Val(groups[4])))

\* the branch `elif pattern_num == 2`
FromPattern2(groups) ==
  IF Truthy(groups[1])
  THEN Scores(ParseInt(Val(groups[3])), ParseInt(Val(groups[2])), Strip(Val(groups[1])))
  ELSE Scores(ParseInt(Val(groups[4])), ParseInt(Val(groups[5])), Strip(Val(groups[6])))

\* the branch `elif pattern_num == 3`
FromPattern3(groups) ==
  Scores(ParseInt(Val(groups[3])), ParseInt(Val(groups[2])), Strip(Val(groups[1])))

Max2(a, b) == IF a >= b THEN a ELSE b
Min2(a, b) == IF a <= b THEN a ELSE b

\* the pattern 4 branch with the first number given to the own team in both
\* formats
ScoresFirstToOwn(score1, score2, raw, own_first, tl) ==
  IF Contains(tl, "win") /\ Contains(tl, "spurs win")
  THEN Scores(Max2(score1, score2), Min2(score1, score2), raw)
  ELSE IF Contains(tl, "loss") /\ Contains(tl, "spurs loss")
  THEN Scores(Min2(score1, score2), Max2(score1, score2), raw)
  ELSE Scores(score1, score2, raw)

\* the three-way choice of the pattern 4 branch; own_first tells which of the
\* two formats matched
ScoresByContext(score1, score2, raw, own_first, tl) ==
  IF Contains(tl, "win") /\ Contains(tl, "spurs win")
  THEN Scores(Max2(score1, score2), Min2(score1, score2), raw)
  ELSE IF Contains(tl, "loss") /\ Contains(tl, "spurs loss")
  THEN Scores(Min2(score1, score2), Max2(score1, score2), raw)
  ELSE IF own_first THEN Scores(score1, score2, raw)
  ELSE Scores(score2, score1, raw)

\* the branch `elif pattern_num == 4`
FromPattern4(groups, text) ==
  IF Truthy(groups[1])
  THEN ScoresByContext(ParseInt(Val(groups[2])), ParseInt(Val(groups[3])),
                       Strip(Val(groups[1])), TRUE, Lower(text))
  ELSE ScoresByContext(ParseInt(Val(groups[5])), ParseInt(Val(groups[6])),
                       Strip(Val(groups[4])), FALSE, Lower(text))

FromPattern(pattern_num, groups, text) ==
  CASE pattern_num = 1 -> FromPattern1(groups)
    [] pattern_num = 2 -> FromPattern2(groups)
    [] pattern_num = 3 -> FromPattern3(groups)
    [] pattern_num = 4 -> FromPattern4(groups, text)

\* the loop without its break: the last pattern that matches decides
LastMatching(text, j) ==
  IF \E n \in j..Len(ScorePatterns) : Search(text, ScorePatterns[n]).matched
  THEN MaxOf({n \in j..Len(ScorePatterns) : Search(text, ScorePatterns[n]).matched})
  ELSE 0

RECURSIVE FirstMatching(_, _)
\* the number of the first pattern from number j on that matches the text, 0
\* when none does
FirstMatching(text, j) ==
  IF j > Len(ScorePatterns) THEN 0
  ELSE IF Search(text, ScorePatterns[j]).matched THEN j
  ELSE FirstMatching(text, j + 1)

NoScore ==
  [matched |-> FALSE, pattern_num |-> 0, spurs_score |-> None, opponent_score |-> None,
   opponent |-> None]

ScoreFound(pattern_num, sc) ==
  [matched |-> TRUE, pattern_num |-> pattern_num, spurs_score |-> Some(sc.spurs_score),
   opponent_score |-> Some(sc.opponent_score),
   opponent |-> Some(normalize_team_name(sc.opponent_raw))]

\* the body of `if score_match:` for the pattern numbered pattern_num
ScoreByPattern(text, pattern_num) ==
  IF pattern_num = 0 THEN NoScore
  ELSE ScoreFound(pattern_num,
                  FromPattern(pattern_num, Search(text, ScorePatterns[pattern_num]).groups,
                              text))

\* the loop `for pattern_num, pattern in enumerate([...], 1)` with its break at
\* the first pattern that matches
MatchScore(text) == ScoreByPattern(text, FirstMatching(text, 1))

(***************************************************************************)
(* extract_game_results: the fallback when no score pattern matched        *)
(***************************************************************************)
\* the entry of a list at an index found by FirstIndex, None when it found none
EntryAt(list, k) == IF k = 0 THEN None ELSE Some(list[k])

\* for team in nba_teams: if team != "Spurs" and team.lower() in text.lower()
OpponentByTeamName(tl) ==
  EntryAt(nba_teams, FirstIndex({k \in DOMAIN nba_teams :
                                   nba_teams[k] # "Spurs" /\ Contains(tl, TeamLower[k])}))

\* max(team_counts.items(), key=lambda x: x[1])[0]: the first team of the list
\* with the largest count
MostMentioned(teams, tl) ==
  teams[MinOf({k \in DOMAIN teams :
                 \A m \in DOMAIN teams : Count(tl, Lower(teams[m])) <= Count(tl, Lower(teams[k]))})]

\* the body of `if isinstance(team, list)`
LosAngelesTeam(teams, tl) ==
  IF \A k \in DOMAIN teams : Contains(tl, Lower(teams[k])) THEN MostMentioned(teams, tl)
  ELSE IF \E k \in DOMAIN teams : Contains(tl, Lower(teams[k]))
  THEN teams[MinOf({k \in DOMAIN teams : Contains(tl, Lower(teams[k]))})]
  ELSE teams[1]

\* the body of `if city != "San Antonio" and city.lower() in text.lower()` for
\* the c-th city
TeamOfCity(c, tl) ==
  IF c = 0 THEN None
  ELSE IF team_cities[c].is_list THEN Some(LosAngelesTeam(team_cities[c].teams, tl))
  ELSE Some(team_cities[c].teams[1])

\* for city, team in team_cities.items(): if city != "San Antonio" and ...
OpponentByCity(tl) ==
  TeamOfCity(FirstIndex({k \in DOMAIN team_cities :
                           team_cities[k].city # "San Antonio" /\ Contains(tl, CityLower[k])}),
             tl)

\* (?:vs\.?|versus|against|at|@)
Against == OneOf({"vs.", "vs", "versus", "against", "at", "@"})

\* (?:Spurs|San Antonio)\s+(?:vs\.?|versus|against|at|@)\s+(\w+(?:\s+\w+)?)
\*   |(\w+(?:\s+\w+)?)\s+(?:vs\.?|versus|against|at|@)\s+(?:Spurs|San Antonio)
teams_pattern ==
  <<Alt(<<OwnTeam, Spaces, Against, Spaces, TeamName>>, <<5, 0>>),
    Alt(<<TeamName, Spaces, Against, Spaces, OwnTeam>>, <<0, 1>>)>>

\* next((g for g in groups if g), None)
FirstTruthy(teams_match) ==
  IF ~teams_match.matched THEN None
  ELSE IF Truthy(teams_match.groups[1]) THEN teams_match.groups[1]
  ELSE IF Truthy(teams_match.groups[2]) THEN teams_match.groups[2]
  ELSE None

\* if opponent_raw: opponent = normalize_team_name(opponent_raw.strip(), ...)
NormalizedIfAny(opponent_raw) ==
  IF Truthy(opponent_raw) THEN Some(normalize_team_name(Strip(Val(opponent_raw)))) ELSE None

\* the block `if not opponent: teams_pattern = ...`
OpponentByVersus(text) == NormalizedIfAny(FirstTruthy(Search(text, teams_pattern)))

spurs_win_indicators ==
  <<"spurs win", "spurs defeat", "spurs beat", "spurs down",
    "san antonio win", "san antonio defeat", "san antonio beat">>

spurs_loss_indicators ==
  <<"spurs lose", "spurs fall", "spurs lost", "defeated by", "beaten by", "fall to",
    "lose to", "win over spurs", "victory over spurs", "over the spurs">>

\* any(indicator in text_lower for indicator in indicators)
AnyIn(indicators, text_lower) ==
  \E k \in DOMAIN indicators : Contains(text_lower, indicators[k])

\* the block `# Try to infer result from text`
ResultByKeyword(text_lower) ==
  IF AnyIn(spurs_win_indicators, text_lower) THEN Some("Win")
  ELSE IF AnyIn(spurs_loss_indicators, text_lower) THEN Some("Loss")
  ELSE None

\* `if not opponent:` before a later step of the fallback
IfNot(opponent, later) == IF Truthy(opponent) THEN opponent ELSE later

\* the block `if not matched:`
Fallback(text) ==
  [opponent |-> IfNot(OpponentByTeamName(Lower(text)),
                      IfNot(OpponentByCity(Lower(text)), OpponentByVersus(text))),
   result |-> ResultByKeyword(Lower(text))]

(***************************************************************************)
(* extract_game_results: the location                                      *)
(***************************************************************************)
\* a pattern without groups
Plain(pieces) == Alt(pieces, <<>>)

\* location_patterns, in the order of the list; the two alternatives of the
\* fourth pattern, at\s+the\s+(?:AT&T|Frost\s+Bank)\s+Center, are written out
location_patterns ==
  << <<Plain(<<OneOf({"played", "playing", "game"}), Spaces, Lit("at"), Spaces, Lit("home")>>)>>,
     <<Plain(<<OneOf({"played", "playing", "game"}), Spaces, Lit("on"), Spaces, Lit("the"),
               Spaces, Lit("road")>>)>>,
     <<Plain(<<Lit("in"), Spaces, Lit("san"), Spaces, Lit("antonio")>>)>>,
     <<Plain(<<Lit("at"), Spaces, Lit("the"), Spaces, Lit("at&t"), Spaces, Lit("center")>>),
       Plain(<<Lit("at"), Spaces, Lit("the"), Spaces, Lit("frost"), Spaces, Lit("bank"),
               Spaces, Lit("center")>>)>>,
     <<Plain(<<Lit("away"), Spaces, Lit("game")>>)>>,
     <<Plain(<<OneOf({"hosts", "hosting", "hosted"}), Spaces, Lit("the")>>)>>,
     <<Plain(<<OneOf({"visits", "visiting", "visited"}), Spaces, Lit("the")>>)>> >>

home_phrases == <<"at home", "in san antonio", "at the", "host">>

\* the body of `if location_match:` with 'host' left out of the home phrases
LocationWithoutHost(text, k) ==
  IF k = 0 THEN None
  ELSE IF \E n \in 1..3 :
            Contains(Lower(Search(text, location_patterns[k]).whole), home_phrases[n])
  THEN Some("Home")
  ELSE Some("Away")

\* the body of `if location_match:` for the k-th pattern of the list
LocationOfMatch(text, k) ==
  IF k = 0 THEN None
  ELSE IF AnyIn(home_phrases, Lower(Search(text, location_patterns[k]).whole))
  THEN Some("Home")
  ELSE Some("Away")

\* the loop `for pattern in location_patterns` with its break
LocationByPhrase(text) ==
  LocationOfMatch(text, FirstIndex({k \in DOMAIN location_patterns :
                                      Search(text, location_patterns[k]).matched}))

\* r'(?:Spurs|San Antonio)\s+@\s+' + re.escape(opponent)
vs_pattern(opponent) ==
  <<Plain(<<OwnTeam, Spaces, Lit("@"), Spaces, Lit(Lower(opponent))>>)>>

\* re.escape(opponent) + r'\s+@\s+(?:Spurs|San Antonio)'
at_pattern(opponent) ==
  <<Plain(<<Lit(Lower(opponent)), Spaces, Lit("@"), Spaces, OwnTeam>>)>>

\* the body of `if not location and opponent:`
LocationBySchedule(text, opponent) ==
  IF Search(text, vs_pattern(opponent)).matched THEN Some("Away")
  ELSE IF Search(text, at_pattern(opponent)).matched THEN Some("Home")
  ELSE None

\* the "@" check made whenever an opponent is known, its result replacing the
\* one of the location phrases
ScheduleOverPhrases(location, text, opponent) ==
  IF Truthy(opponent) /\ Truthy(LocationBySchedule(text, Val(opponent)))
  THEN LocationBySchedule(text, Val(opponent))
  ELSE location

\* `if not location and opponent:` after the loop over location_patterns
LocationAfterPhrases(location, text, opponent) ==
  IF ~Truthy(location) /\ Truthy(opponent) THEN LocationBySchedule(text, Val(opponent))
  ELSE location

ResolveLocation(text, opponent) ==
  LocationAfterPhrases(LocationByPhrase(text), text, opponent)

(***************************************************************************)
(* extract_game_results: one article                                       *)
(***************************************************************************)
\* BeautifulSoup(content, 'html.parser').get_text() on content whose markup is
\* well-formed tags without entities: the text outside the tags <...>
\* the character at i belongs to a tag: the last "<" at or before i is not yet
\* closed by a ">" before i, and a ">" closes it at or after i
InTag(s, i) ==
  /\ \E j \in 1..i : Ch(s, j) = "<"
  /\ \A m \in MaxOf({j \in 1..i : Ch(s, j) = "<"})..(i - 1) : Ch(s, m) # ">"
  /\ \E e \in i..Len(s) : Ch(s, e) = ">"

RECURSIVE TextBetween(_, _, _)
\* the characters of s[lo..hi] outside the tags, one half after the other
TextBetween(s, lo, hi) ==
  IF lo > hi THEN ""
  ELSE IF lo = hi THEN (IF InTag(s, lo) THEN "" ELSE Ch(s, lo))
  ELSE TextBetween(s, lo, (lo + hi) \div 2) \o TextBetween(s, (lo + hi) \div 2 + 1, hi)

GetText(content) == TextBetween(content, 1, Len(content))

game_recap_keywords ==
  <<"recap", "final score", "defeat", "win", "lose", "loss", "fall", "beat",
    "game thread", "vs", "versus", "against", "victory", "down", "outlast">>

\* the loop without `if is_recap:`: every title passes
AnyTitle(title) == TRUE

\* any(keyword in article.title.lower() for keyword in game_recap_keywords)
IsRecap(title) == AnyIn(game_recap_keywords, Lower(title))

\* f"Spurs {spurs_score}, {opponent} {opponent_score}"
FormatScore(spurs_score, opponent, opponent_score) ==
  "Spurs " \o FormatInt(spurs_score) \o ", " \o opponent \o " " \o FormatInt(opponent_score)

\* the comparison with >= in the place of >: a tie is a win
ResultTieWins(spurs_score, opponent_score) ==
  IF spurs_score >= opponent_score THEN "Win" ELSE "Loss"

\* result = "Win" if spurs_score > opponent_score else "Loss"
ResultFromScores(spurs_score, opponent_score) ==
  IF spurs_score > opponent_score THEN "Win" ELSE "Loss"

\* the local variables from `# If we have scores, set the result based on those`
\* to the end of `if content:`; result is the one the fallback left
AfterScores(text, m, opponent, result) ==
  [matched |-> m.matched, pattern_num |-> m.pattern_num,
   spurs_score |-> m.spurs_score, opponent_score |-> m.opponent_score,
   opponent |-> opponent,
   score |-> IF m.spurs_score # None /\ m.opponent_score # None
             THEN Some(FormatScore(Val(m.spurs_score), OrNone(opponent), Val(m.opponent_score)))
             ELSE None,
   result |-> IF m.spurs_score # None /\ m.opponent_score # None
              THEN Some(ResultFromScores(Val(m.spurs_score), Val(m.opponent_score)))
              ELSE result,
   location |-> ResolveLocation(text, opponent)]

\* `if not matched:` run, its opponent and result taken over
AfterFallback(text, m, fallback) == AfterScores(text, m, fallback.opponent, fallback.result)

\* the local variables after the loop over the score patterns
AfterScoreLoop(text, m) ==
  IF m.matched THEN AfterScores(text, m, m.opponent, None)
  ELSE AfterFallback(text, m, Fallback(text))

\* the body of `if content:`: the values of the local variables after it
AnalyseText(text) == AfterScoreLoop(text, MatchScore(text))

\* the values of the local variables when `if content:` is not entered
NothingFound ==
  [matched |-> FALSE, pattern_num |-> 0, spurs_score |-> None, opponent_score |-> None,
   opponent |-> None, score |-> None, result |-> None, location |-> None]

\* content = article.content if article.content else article.description
ContentOf(article) == IF Truthy(article.content) THEN article.content ELSE article.description

\* text = soup.get_text() + " " + title
TextOf(article) == GetText(Val(ContentOf(article))) \o " " \o Val(article.title)

Analyse(article) ==
  IF Truthy(ContentOf(article)) THEN AnalyseText(TextOf(article)) ELSE NothingFound

\* x if x else default
OrDefault(o, default) == IF Truthy(o) THEN Val(o) ELSE default

\* the test with `or` in the place of `and`
SomeInformation(found) == Truthy(found.result) \/ Truthy(found.score)

\* the test `if result and score:` before game_results.append
EnoughInformation(found) == Truthy(found.result) /\ Truthy(found.score)

\* GameResult(date=..., opponent=..., score=..., result=..., location=...)
GameResult(article, found) ==
  [date |-> article.pub_date,
   opponent |-> OrDefault(found.opponent, "Unknown"),
   score |-> OrDefault(found.score, "Score not found"),
   result |-> OrDefault(found.result, "Unknown"),
   location |-> OrDefault(found.location, "Unknown")]

\* article.title.lower() raises AttributeError when the title is None
TitleRaises(article) == article.title = None

\* a round of the loop that ran `if is_recap:` and left found in the local
\* variables
RecapRound(article, found) ==
  [raised |-> FALSE, is_recap |-> TRUE, found |-> found,
   appended |-> IF EnoughInformation(found) THEN <<GameResult(article, found)>> ELSE <<>>]

\* one round of `for article in articles`: whether it raises, the values it
\* leaves in the local variables, and the GameResults it appends
ProcessArticle(article) ==
  IF TitleRaises(article)
  THEN [raised |-> TRUE, is_recap |-> FALSE, found |-> NothingFound, appended |-> <<>>]
  ELSE IF ~IsRecap(Val(article.title))
  THEN [raised |-> FALSE, is_recap |-> FALSE, found |-> NothingFound, appended |-> <<>>]
  ELSE RecapRound(article, Analyse(article))

(***************************************************************************)
(* fetch_and_parse_rss: the feed parser.  An element of an entry is absent *)
(* (find returns None), or present with a text that is None when the       *)
(* element is empty.  The link and the guid are not read by the functions  *)
(* modelled here and are left out of the Article.                          *)
(***************************************************************************)
Absent == [present |-> FALSE, text |-> None]
Element(text) == [present |-> TRUE, text |-> text]

\* entry.find(...).text if entry.find(...) is not None else ""
ElementText(e) == IF e.present THEN e.text ELSE Some("")

DescriptionLength == 200

\* description = content[:200] + '...' if content else ""
Description(content) ==
  IF Truthy(content)
  THEN Some(SubSeq(Val(content), 1, Min2(DescriptionLength, Len(Val(content)))) \o "...")
  ELSE Some("")

\* the body of `for entry in root.findall('atom:entry', ns)`
ParseEntry(entry) ==
  [title |-> ElementText(entry.title),
   description |-> Description(ElementText(entry.content)),
   pub_date |-> ElementText(entry.published),
   content |-> ElementText(entry.content)]

\* articles, after the loop over the entries of the feed
ParseFeed(entries) == [k \in DOMAIN entries |-> ParseEntry(entries[k])]

(***************************************************************************)
(* The inputs.  A content is up to MaxFrags of the fragments below, joined *)
(* by blanks; the fragments are the wordings the patterns and keyword      *)
(* lists of extract_game_results look for.                                 *)
(***************************************************************************)
MaxFrags == 2
MaxFeedLen == 2
MaxTime == 60

Fragments ==
  {"Spurs 120, Lakers 110",
   "Hornets 110, Spurs 99",
   "Final Score: Clippers 122~117 Spurs",
   "Clippers to a 122-117 win over the Spurs",
   "Spurs vs. Foo: 117-122",
   "Lakers at Spurs 100-100",
   "Heat vs Spurs 90-101",
   "the Spurs win",
   "a Spurs loss",
   "hosting the Lakers",
   "on the road against the Lakers",
   "Spurs @ Lakers",
   "<b>Lakers</b> @ Spurs",
   "Los Angeles"}

Joined(c, f) == IF c = "" THEN f ELSE c \o " " \o f

WithOneMore(shorter) == shorter \cup {Joined(c, f) : c \in shorter, f \in Fragments}

RECURSIVE ContentsUpTo(_)
ContentsUpTo(n) == IF n = 0 THEN {""} ELSE WithOneMore(ContentsUpTo(n - 1))

InputContents == ContentsUpTo(MaxFrags)

InputTitles == {Element(None), Element(Some("Practice notes")), Element(Some("Game Recap"))}

\* the entries of the one-article feeds the extraction is checked on
InputEntries ==
  {[title |-> t, published |-> Element(Some("2025-01-01")), content |-> c] :
     t \in InputTitles,
     c \in {Element(None)} \cup {Element(Some(x)) : x \in InputContents}}

Entry(title, published, content) ==
  [title |-> title, published |-> Element(Some(published)), content |-> Element(Some(content))]

\* the entries the feeds of the cache model are made of
FeedEntries ==
  {Entry(Element(Some("Recap")), "Mon", "Spurs 9, Heat 8"),
   Entry(Element(Some("Recap")), "Tue", "Heat 8, Spurs 7"),
   Entry(Element(None), "Wed", "Spurs 9, Heat 8"),
   Entry(Element(Some("Spurs win")), "Thu", "no score")}

Longer(shorter, S) == shorter \cup {Append(q, x) : q \in shorter, x \in S}

RECURSIVE SeqsUpTo(_, _)
SeqsUpTo(S, n) == IF n = 0 THEN {<<>>} ELSE Longer(SeqsUpTo(S, n - 1), S)

Feeds == SeqsUpTo(FeedEntries, MaxFeedLen)

\* the handlers that can be in progress at the same time
Callers == {"c1", "c2"}

(***************************************************************************)
(* extract_game_results: the whole call                                    *)
(***************************************************************************)
\* the rounds of the loop for the articles of the cache model's feeds, worked
\* out once
FeedArticleRounds == [a \in {ParseEntry(e) : e \in FeedEntries} |-> ProcessArticle(a)]

LoopRound(article) ==
  IF article \in DOMAIN FeedArticleRounds THEN FeedArticleRounds[article]
  ELSE ProcessArticle(article)

\* game_results.insert(0, ...) in the place of game_results.append
InsertedInFront(round, rest) ==
  [raised |-> rest.raised,
   game_results |-> rest.game_results \o round.appended,
   rounds |-> <<round>> \o rest.rounds]

\* the loop after a round that did not raise: game_results.append
Appended(round, rest) ==
  [raised |-> rest.raised,
   game_results |-> round.appended \o rest.game_results,
   rounds |-> <<round>> \o rest.rounds]

RECURSIVE LoopFrom(_, _)
RECURSIVE AfterRound(_, _, _)
\* the rounds of `for article in articles` from the k-th article on: a round
\* that raises ends the loop and the call
LoopFrom(articles, k) ==
  IF k > Len(articles) THEN [raised |-> FALSE, game_results |-> <<>>, rounds |-> <<>>]
  ELSE AfterRound(LoopRound(articles[k]), articles, k)

AfterRound(round, articles, k) ==
  IF round.raised THEN [raised |-> TRUE, game_results |-> <<>>, rounds |-> <<round>>]
  ELSE Appended(round, LoopFrom(articles, k + 1))

\* game_results = [] and the loop that fills it
ComputeResults(articles) == LoopFrom(articles, 1)

CACHE_DURATION == 30

\* last_fetch_time and (current_time - last_fetch_time) < CACHE_DURATION and cache
CacheIsFresh(fetch_time, current, cache) ==
  fetch_time # None /\ current - Val(fetch_time) < CACHE_DURATION /\ cache # <<>>

\* extract_game_results past its cache check: the loop, then `# Update cache`
\* and the return unless the loop raised
Recomputed(articles, results_cache, pass) ==
  IF pass.raised
  THEN [called |-> TRUE, articles |-> articles, raised |-> TRUE, from_cache |-> FALSE,
        returned |-> <<>>, rounds |-> pass.rounds, cache |-> results_cache]
  ELSE [called |-> TRUE, articles |-> articles, raised |-> FALSE, from_cache |-> FALSE,
        returned |-> pass.game_results, rounds |-> pass.rounds,
        cache |-> pass.game_results]

\* extract_game_results(articles) called at time current: what it returns, whether
\* it raises, and the game_results_cache it leaves
ExtractGameResults(articles, fetch_time, results_cache, current) ==
  IF CacheIsFresh(fetch_time, current, results_cache)
  THEN [called |-> TRUE, articles |-> articles, raised |-> FALSE, from_cache |-> TRUE,
        returned |-> results_cache, rounds |-> <<>>, cache |-> results_cache]
  ELSE Recomputed(articles, results_cache, ComputeResults(articles))

(***************************************************************************)
(* The state: the module's globals, the clock, and the handlers in         *)
(* progress.  A handler runs without interruption up to its only point of  *)
(* suspension that lets other handlers run, `await client.get(...)`, and   *)
(* from the response to its end: extract_game_results awaits nothing.      *)
(***************************************************************************)
VARIABLES
  article_cache,       \* the global of that name; {} and [] are <<>>
  game_results_cache,  \* the global of that name
  last_fetch_time,     \* the global of that name, None or a time
  now,                 \* datetime.datetime.now(), in minutes
  pc,                  \* per caller: "idle", or "requesting" while client.get is awaited
  handler,             \* per caller: the handler it runs while requesting
  current_time,        \* per caller: current_time of its fetch_and_parse_rss call
  fetched,             \* what fetch_and_parse_rss returned in the last step, if it did
  extracted            \* the call of extract_game_results in the last step, if any

vars == <<article_cache, game_results_cache, last_fetch_time, now, pc, handler,
          current_time, fetched, extracted>>

Handlers == {"get_latest_articles", "get_recent_game_results", "get_recent_results"}

NotFetched == [how |-> "none", raised |-> FALSE, articles |-> <<>>]

NotExtracted ==
  [called |-> FALSE, articles |-> <<>>, raised |-> FALSE, from_cache |-> FALSE,
   returned |-> <<>>, rounds |-> <<>>, cache |-> <<>>]

Init ==
  /\ article_cache = <<>>
  /\ game_results_cache = <<>>
  /\ last_fetch_time = None
  /\ now = 0
  /\ pc = [c \in Callers |-> "idle"]
  /\ handler = [c \in Callers |-> "none"]
  /\ current_time = [c \in Callers |-> 0]
  /\ fetched = NotFetched
  /\ extracted = NotExtracted

\* the handler h goes on to extract_game_results(articles)
CallsExtract(h, articles) ==
  \/ h = "get_recent_game_results"
  \/ h = "get_recent_results" /\ articles # <<>>

\* the handler's call of extract_game_results, and what it leaves in the global
Extracts(call) ==
  /\ extracted' = call
  /\ game_results_cache' = call.cache

\* the rest of handler h once fetch_and_parse_rss has returned articles, the
\* global last_fetch_time being fetch_time by then
AfterFetch(h, articles, fetch_time) ==
  IF CallsExtract(h, articles)
  THEN Extracts(ExtractGameResults(articles, fetch_time, game_results_cache, now))
  ELSE /\ extracted' = NotExtracted
       /\ UNCHANGED game_results_cache

\* the handler of caller c ends
Finish(c) ==
  /\ pc' = [pc EXCEPT ![c] = "idle"]
  /\ handler' = [handler EXCEPT ![c] = "none"]
  /\ current_time' = [current_time EXCEPT ![c] = 0]

\* caller c begins handler h: fetch_and_parse_rss up to its return of the fresh
\* cache, after which the handler runs to its end, or up to `await client.get(...)`
StartHandler(c, h) ==
  /\ pc[c] = "idle"
  /\ IF CacheIsFresh(last_fetch_time, now, article_cache)
     THEN /\ fetched' = [how |-> "fresh cache", raised |-> FALSE, articles |-> article_cache]
          /\ AfterFetch(h, article_cache, last_fetch_time)
          /\ UNCHANGED <<pc, handler, current_time>>
     ELSE /\ pc' = [pc EXCEPT ![c] = "requesting"]
          /\ handler' = [handler EXCEPT ![c] = h]
          /\ current_time' = [current_time EXCEPT ![c] = now]
          /\ fetched' = NotFetched
          /\ extracted' = NotExtracted
          /\ UNCHANGED game_results_cache
  /\ UNCHANGED <<article_cache, last_fetch_time, now>>

\* the response arrives and parses: the cache is updated and the handler runs
\* to its end
FeedArrives(c, entries) ==
  /\ pc[c] = "requesting"
  /\ article_cache' = ParseFeed(entries)
  /\ last_fetch_time' = Some(current_time[c])
  /\ fetched' = [how |-> "fetched", raised |-> FALSE, articles |-> ParseFeed(entries)]
  /\ AfterFetch(handler[c], ParseFeed(entries), Some(current_time[c]))
  /\ Finish(c)
  /\ UNCHANGED now

\* the `except Exception` branch had last_fetch_time been set before the request
FeedFailsTimeRecorded(c) ==
  /\ pc[c] = "requesting"
  /\ last_fetch_time' = Some(current_time[c])
  /\ IF article_cache # <<>>
     THEN /\ fetched' = [how |-> "stale cache", raised |-> FALSE, articles |-> article_cache]
          /\ AfterFetch(handler[c], article_cache, Some(current_time[c]))
     ELSE /\ fetched' = [how |-> "error", raised |-> TRUE, articles |-> <<>>]
          /\ extracted' = NotExtracted
          /\ UNCHANGED game_results_cache
  /\ Finish(c)
  /\ UNCHANGED <<article_cache, now>>

\* the request or the parsing raises: the `except Exception` branch
FeedFails(c) ==
  /\ pc[c] = "requesting"
  /\ IF article_cache # <<>>
     THEN /\ fetched' = [how |-> "stale cache", raised |-> FALSE, articles |-> article_cache]
          /\ AfterFetch(handler[c], article_cache, last_fetch_time)
     ELSE /\ fetched' = [how |-> "error", raised |-> TRUE, articles |-> <<>>]
          /\ extracted' = NotExtracted
          /\ UNCHANGED game_results_cache
  /\ Finish(c)
  /\ UNCHANGED <<article_cache, last_fetch_time, now>>

\* time passes: the clock is read at steps of the cache's lifetime
Tick ==
  /\ now + CACHE_DURATION <= MaxTime
  /\ now' = now + CACHE_DURATION
  /\ fetched' = NotFetched
  /\ extracted' = NotExtracted
  /\ UNCHANGED <<article_cache, game_results_cache, last_fetch_time, pc, handler,
                 current_time>>

Next ==
  \/ \E c \in Callers : \E h \in Handlers : StartHandler(c, h)
  \/ \E c \in Callers : \E entries \in Feeds : FeedArrives(c, entries)
  \/ \E c \in Callers : FeedFails(c)
  \/ Tick

Spec == Init /\ [][Next]_vars

(***************************************************************************)
(* The extraction on its own: one get_recent_game_results handler served a *)
(* feed of one entry drawn from InputEntries.                              *)
(***************************************************************************)
ExtractNext ==
  \/ StartHandler("c1", "get_recent_game_results")
  \/ \E entry \in InputEntries : FeedArrives("c1", <<entry>>)

ExtractSpec == Init /\ [][ExtractNext]_vars

(***************************************************************************)
(* The normalisation of team names: one get_recent_game_results handler    *)
(* served a feed of one recap whose score line names the opponent by a     *)
(* canonical name as the registry writes it, in lower case or in upper     *)
(* case.                                                                   *)
(***************************************************************************)
UpperCh(c) == IF c \in LowerChars THEN CHOOSE u \in UpperChars : LowerOf[u] = c ELSE c

RECURSIVE Upper(_)
Upper(s) ==
  IF Len(s) = 0 THEN ""
  ELSE IF Len(s) = 1 THEN UpperCh(s)
  ELSE Upper(SubSeq(s, 1, Len(s) \div 2)) \o Upper(SubSeq(s, Len(s) \div 2 + 1, Len(s)))

NameTokens ==
  UNION {{nba_teams[n], Lower(nba_teams[n]), Upper(nba_teams[n])} : n \in DOMAIN nba_teams}

NameEntries ==
  {Entry(Element(Some("Game Recap")), "2025-01-01", "Spurs 120, " \o token \o " 110") :
     token \in NameTokens}

NormalizeNext ==
  \/ StartHandler("c1", "get_recent_game_results")
  \/ \E entry \in NameEntries : FeedArrives("c1", <<entry>>)

NormalizeSpec == Init /\ [][NormalizeNext]_vars

(***************************************************************************)
(* Repeated runs: one caller of get_recent_game_results, the feed arriving *)
(* or failing, and time passing.  Here `extracted` is the most recent call *)
(* of extract_game_results: the steps that call it are those of Spec, and  *)
(* the steps that do not call it leave `extracted` as it is.               *)
(***************************************************************************)
\* fetch_and_parse_rss finds its cache stale or empty and awaits client.get
BeginRequest(c, h) ==
  /\ pc[c] = "idle"
  /\ ~CacheIsFresh(last_fetch_time, now, article_cache)
  /\ pc' = [pc EXCEPT ![c] = "requesting"]
  /\ handler' = [handler EXCEPT ![c] = h]
  /\ current_time' = [current_time EXCEPT ![c] = now]
  /\ fetched' = NotFetched
  /\ UNCHANGED <<article_cache, game_results_cache, last_fetch_time, now, extracted>>

\* the request fails with nothing cached: the exception reaches the caller
RequestFailsEmpty(c) ==
  /\ pc[c] = "requesting"
  /\ article_cache = <<>>
  /\ fetched' = [how |-> "error", raised |-> TRUE, articles |-> <<>>]
  /\ Finish(c)
  /\ UNCHANGED <<article_cache, game_results_cache, last_fetch_time, now, extracted>>

\* time passes
TimePasses ==
  /\ now + CACHE_DURATION <= MaxTime
  /\ now' = now + CACHE_DURATION
  /\ fetched' = NotFetched
  /\ UNCHANGED <<article_cache, game_results_cache, last_fetch_time, pc, handler,
                 current_time, extracted>>

RepeatNext ==
  \/ /\ CacheIsFresh(last_fetch_time, now, article_cache)
     /\ StartHandler("c1", "get_recent_game_results")
  \/ BeginRequest("c1", "get_recent_game_results")
  \/ \E entries \in Feeds : FeedArrives("c1", entries)
  \/ /\ article_cache # <<>>
     /\ FeedFails("c1")
  \/ RequestFailsEmpty("c1")
  \/ TimePasses

RepeatSpec == Init /\ [][RepeatNext]_vars

(***************************************************************************)
(* The opponent of a Los Angeles game: one get_recent_game_results handler *)
(* served a feed of one recap without a score, whose content is up to      *)
(* MaxMentions mentions of the city and of its two teams.                  *)
(***************************************************************************)
MaxMentions == 4

MentionTokens == {"Los Angeles", "Lakers", "Clippers"}

WithOneMoreMention(shorter) ==
  shorter \cup {Joined(c, token) : c \in shorter, token \in MentionTokens}

RECURSIVE MentionsUpTo(_)
MentionsUpTo(n) == IF n = 0 THEN {""} ELSE WithOneMoreMention(MentionsUpTo(n - 1))

MentionEntries ==
  {Entry(Element(Some("Game Recap")), "2025-01-01", text) :
     text \in MentionsUpTo(MaxMentions) \ {""}}

MentionNext ==
  \/ StartHandler("c1", "get_recent_game_results")
  \/ \E entry \in MentionEntries : FeedArrives("c1", <<entry>>)

MentionSpec == Init /\ [][MentionNext]_vars

(***************************************************************************)
(* The claims.  They are stated of the call of extract_game_results in the *)
(* last step: extracted.articles is the list it was passed, extracted      *)
(* .rounds the rounds of its loop (none when it returned its cache), and   *)
(* extracted.returned the list it returned.                                *)
(***************************************************************************)
\* the call of the last step ran its loop to the end
Computed == extracted.called /\ ~extracted.from_cache /\ ~extracted.raised

\* the rounds of the last call that ran `if content:`, by their index
AnalysedRounds ==
  {k \in DOMAIN extracted.rounds :
     extracted.rounds[k].is_recap /\ Truthy(ContentOf(extracted.articles[k]))}

\* the text the k-th round analysed
RoundText(k) == TextOf(extracted.articles[k])

\* the pattern numbered n, independently of the list the loop goes through
PatternNumbered(n) ==
  CASE n = 1 -> pattern1 [] n = 2 -> pattern2 [] n = 3 -> pattern3 [] n = 4 -> pattern4

MatchingPatterns(text) == {n \in 1..4 : Search(text, PatternNumbered(n)).matched}

\* the scores and the raw opponent pattern n yields for the text
ScoresOfPattern(text, n) == FromPattern(n, Search(text, PatternNumbered(n)).groups, text)

----------------------------------------------------------------------------
EmittedIffRecovered(round) ==
  /\ (round.appended # <<>>) <=> (Truthy(round.found.result) \/ Truthy(round.found.score))
  /\ (Truthy(round.found.result) /\ ~round.found.matched)
       => round.appended # <<>> /\ round.appended[1].score = "Score not found"

\* C1: for a recap-classified article with non-empty content a GameResult is
\* emitted if and only if at least one of result or score was recovered; an
\* article with a keyword-recovered result and no score is emitted with the
\* score "Score not found".
C1_EmittedIffResultOrScore ==
  \A k \in DOMAIN extracted.rounds :
    (extracted.rounds[k].is_recap /\ Truthy(extracted.articles[k].content))
      => EmittedIffRecovered(extracted.rounds[k])

\* the code's gate at work: a recap whose result came from the keyword scan,
\* without a score, is dropped
C1_KeywordResultDropped ==
  \E k \in AnalysedRounds :
    /\ ~extracted.rounds[k].found.matched
    /\ Truthy(extracted.rounds[k].found.result)
    /\ extracted.rounds[k].appended = <<>>

----------------------------------------------------------------------------
\* C2: the list extract_game_results(articles) returns is the one recomputed
\* from the articles passed to that call, never one derived in an earlier pass
\* from a different article list.
C2_ReturnedIsRecomputed ==
  (extracted.called /\ ~extracted.raised)
    => /\ ~ComputeResults(extracted.articles).raised
       /\ extracted.returned = ComputeResults(extracted.articles).game_results

\* a call that returned the cached list of another article list
C2_StaleResultsReturned ==
  /\ extracted.called /\ extracted.from_cache
  /\ ~ComputeResults(extracted.articles).raised
  /\ extracted.returned # ComputeResults(extracted.articles).game_results

----------------------------------------------------------------------------
\* C3: when several callers invoke fetch_and_parse_rss while the article cache
\* is stale or empty, at most one feed request is in flight at any time.
C3_AtMostOneRequestInFlight ==
  Cardinality({c \in Callers : pc[c] = "requesting"}) <= 1

\* two callers awaiting client.get at once
C3_TwoRequestsInFlight == \A c \in Callers : pc[c] = "requesting"

----------------------------------------------------------------------------
\* found holds what the scores sc of pattern n are stored as
StoredFrom(found, n, sc) ==
  /\ found.matched
  /\ found.pattern_num = n
  /\ found.spurs_score = Some(sc.spurs_score)
  /\ found.opponent_score = Some(sc.opponent_score)
  /\ found.opponent = Some(normalize_team_name(sc.opponent_raw))

\* found holds what the lowest-numbered of the matching patterns yields
DecidedByLowest(text, found, matching) ==
  IF matching = {}
  THEN ~found.matched /\ found.spurs_score = None /\ found.opponent_score = None
  ELSE StoredFrom(found, MinOf(matching), ScoresOfPattern(text, MinOf(matching)))

LowestPatternDecides(text, found) == DecidedByLowest(text, found, MatchingPatterns(text))

\* C4: the score patterns are tried in the order 1, 2, 3, 4 and the first that
\* matches decides: the pattern number, the scores and the opponent stored are
\* those of the lowest-numbered pattern that matches the text, and no later
\* pattern overrides them.
C4_FirstMatchingPatternDecides ==
  \A k \in AnalysedRounds : LowestPatternDecides(RoundText(k), extracted.rounds[k].found)

\* a text that both pattern 1 and pattern 2 match, with different scores, was
\* resolved by pattern 1
C4_Pattern1BeforePattern2 ==
  \E k \in AnalysedRounds :
    /\ {1, 2} \subseteq MatchingPatterns(RoundText(k))
    /\ ScoresOfPattern(RoundText(k), 1).spurs_score # ScoresOfPattern(RoundText(k), 2).spurs_score
    /\ extracted.rounds[k].found.pattern_num = 1
    /\ extracted.rounds[k].found.spurs_score = Some(ScoresOfPattern(RoundText(k), 1).spurs_score)

----------------------------------------------------------------------------
ResultFollowsScores(round) ==
  /\ round.found.result =
       Some(IF Val(round.found.spurs_score) > Val(round.found.opponent_score)
            THEN "Win" ELSE "Loss")
  /\ round.appended # <<>>
  /\ round.appended[1].result = Val(round.found.result)

\* C5: whenever a score pattern recovered both scores, result is "Win" if and
\* only if the Spurs score is strictly greater than the opponent score and
\* "Loss" otherwise, whatever win/loss keywords the text has; equal scores are
\* "Loss".
C5_ResultFromScoresOnly ==
  \A k \in AnalysedRounds :
    (extracted.rounds[k].found.spurs_score # None
       /\ extracted.rounds[k].found.opponent_score # None)
      => ResultFollowsScores(extracted.rounds[k])

\* a tie was emitted as a loss, in a text that has a win keyword
C5_TieIsLoss ==
  /\ Computed
  /\ \E k \in AnalysedRounds :
       /\ extracted.rounds[k].found.spurs_score # None
       /\ extracted.rounds[k].found.spurs_score = extracted.rounds[k].found.opponent_score
       /\ Contains(Lower(RoundText(k)), "spurs win")
       /\ extracted.returned[1].result = "Loss"

----------------------------------------------------------------------------
NoKeywordInTitle(article) ==
  /\ article.title # None
  /\ \A n \in DOMAIN game_recap_keywords :
       ~Contains(Lower(Val(article.title)), game_recap_keywords[n])

\* C6: for an article whose lower-cased title contains none of the recap
\* keywords, no score pattern, fallback or location step is run and no
\* GameResult is produced.
C6_NoRecapKeywordNoResult ==
  \A k \in DOMAIN extracted.rounds :
    NoKeywordInTitle(extracted.articles[k])
      => /\ ~extracted.rounds[k].is_recap
         /\ extracted.rounds[k].found = NothingFound
         /\ extracted.rounds[k].appended = <<>>
         /\ (Len(extracted.articles) = 1 => extracted.returned = <<>>)

\* an article without a recap keyword in its title, whose content a score
\* pattern matches, went through a computing pass and gave nothing
C6_ScoreInContentSkipped ==
  /\ Computed
  /\ \E k \in DOMAIN extracted.rounds :
       /\ NoKeywordInTitle(extracted.articles[k])
       /\ Truthy(extracted.articles[k].content)
       /\ MatchingPatterns(RoundText(k)) # {}
  /\ extracted.returned = <<>>

----------------------------------------------------------------------------
\* C7: in every reachable state of the caches, extract_game_results called
\* with an empty article sequence returns an empty result list.
C7_EmptyArticlesEmptyResults ==
  (extracted.called /\ extracted.articles = <<>>) => extracted.returned = <<>>

\* the call with no articles that returned cached results
C7_EmptyArticlesCachedResults ==
  extracted.called /\ extracted.articles = <<>> /\ extracted.returned # <<>>

----------------------------------------------------------------------------
\* the ways of picking n of m articles in their order
Picks(n, m) == {p \in [1..n -> 1..m] : \A i, j \in 1..n : i < j => p[i] < p[j]}

InArticleOrder(returned, articles, rounds) ==
  /\ \A k \in DOMAIN rounds : Len(rounds[k].appended) <= 1
  /\ \E p \in Picks(Len(returned), Len(articles)) :
       /\ \A i \in DOMAIN returned :
            /\ returned[i].date = articles[p[i]].pub_date
            /\ rounds[p[i]].appended = <<returned[i]>>
       /\ \A k \in DOMAIN rounds :
            rounds[k].appended # <<>> => \E i \in DOMAIN returned : p[i] = k

\* C8: on a pass that computes results from its input, each article
\* contributes at most one GameResult, its date is the article's pub_date
\* copied verbatim, and the GameResults are in the order of their articles.
C8_ResultsInArticleOrder ==
  Computed => InArticleOrder(extracted.returned, extracted.articles, extracted.rounds)

\* a computing pass over two articles of different dates gave both results, the
\* first article's first
C8_TwoResultsInOrder ==
  /\ Computed
  /\ Len(extracted.articles) = 2 /\ Len(extracted.returned) = 2
  /\ extracted.articles[1].pub_date # extracted.articles[2].pub_date
  /\ extracted.returned[1].date = extracted.articles[1].pub_date
  /\ extracted.returned[2].date = extracted.articles[2].pub_date

----------------------------------------------------------------------------
\* C9: extract_game_results never raises for an article record the feed parser
\* can produce, a title or content that is None included; one article's
\* problem never aborts the processing of the remaining articles.
C9_ExtractNeverRaises == ~extracted.raised

\* the pass that an article with an empty title element aborted, a recap with a
\* score left unprocessed after it
C9_RaisedBeforeLaterRecap ==
  /\ extracted.raised
  /\ Len(extracted.rounds) < Len(extracted.articles)
  /\ ProcessArticle(extracted.articles[Len(extracted.articles)]).appended # <<>>

----------------------------------------------------------------------------
CanonicalNames == {nba_teams[n] : n \in DOMAIN nba_teams}

\* C10: the opponent of every emitted GameResult is one of the 30 canonical
\* NBA team names or "Unknown", whatever token the score pattern captured.
C10_OpponentCanonicalOrUnknown ==
  \A k \in DOMAIN extracted.rounds :
    \A i \in DOMAIN extracted.rounds[k].appended :
      extracted.rounds[k].appended[i].opponent \in CanonicalNames \cup {"Unknown"}

\* the captured token names no team and no city of the registry
NamesNoTeam(raw) ==
  /\ \A n \in DOMAIN nba_teams : ~Contains(Lower(raw), Lower(nba_teams[n]))
  /\ \A n \in DOMAIN team_cities : ~Contains(Lower(raw), Lower(team_cities[n].city))

OpponentCanonicalOrRaw(text, found, opponent) ==
  \/ opponent \in CanonicalNames \cup {"Unknown"}
  \/ /\ opponent = ScoresOfPattern(text, found.pattern_num).opponent_raw
     /\ NamesNoTeam(opponent)

\* C10, amended: the opponent of every emitted GameResult is a canonical NBA
\* team name, or "Unknown", or the token the deciding score pattern captured,
\* stripped and otherwise unchanged, when that token names no team and no city
\* of the registry.
C10_OpponentCanonicalOrRawToken ==
  \A k \in AnalysedRounds :
    \A i \in DOMAIN extracted.rounds[k].appended :
      OpponentCanonicalOrRaw(RoundText(k), extracted.rounds[k].found,
                             extracted.rounds[k].appended[i].opponent)

\* a GameResult whose opponent is the captured token, no team of the registry
C10_RawTokenEmitted ==
  \E k \in AnalysedRounds :
    /\ extracted.rounds[k].appended # <<>>
    /\ extracted.rounds[k].appended[1].opponent \notin CanonicalNames \cup {"Unknown"}
    /\ extracted.returned # <<>>
    /\ extracted.returned[1].opponent = extracted.rounds[k].appended[1].opponent

----------------------------------------------------------------------------
\* the token the deciding score pattern of the k-th round captured as the
\* opponent
RawOpponent(k) ==
  ScoresOfPattern(RoundText(k), extracted.rounds[k].found.pattern_num).opponent_raw

\* the rounds of the last call in which a score pattern matched
MatchedRounds == {k \in AnalysedRounds : extracted.rounds[k].found.matched}

\* a token that is a canonical name but for its case is given that name
ExactNameKept(raw, round) ==
  \A n \in DOMAIN nba_teams :
    Lower(raw) = Lower(nba_teams[n])
      => /\ round.found.opponent = Some(nba_teams[n])
         /\ round.appended # <<>>
         /\ round.appended[1].opponent = nba_teams[n]

\* C11: for every raw token that equals one of the 30 canonical team names
\* case-insensitively, normalize_team_name returns exactly that canonical
\* name, and no other registry entry that is a substring of the token.
C11_ExactNameNormalized ==
  \A k \in MatchedRounds : ExactNameKept(RawOpponent(k), extracted.rounds[k])

\* the token "hornets", which contains "nets", was normalised to "Hornets"
C11_HornetsNotNets ==
  \E k \in MatchedRounds :
    /\ RawOpponent(k) = "hornets"
    /\ extracted.returned # <<>>
    /\ extracted.returned[1].opponent = "Hornets"

----------------------------------------------------------------------------
\* the text of the k-th round has the phrase, in any case
TextHas(k, phrase) == Contains(Lower(RoundText(k)), phrase)

\* the n-th of location_patterns matches the text
PhraseMatches(text, n) == Search(text, location_patterns[n]).matched

\* "hosting the Lakers" with no earlier-listed location phrase
HostingFirst(k) ==
  /\ TextHas(k, "hosting the lakers")
  /\ \A n \in 1..5 : ~PhraseMatches(RoundText(k), n)

\* "on the road against the Lakers" as the only location wording: no location
\* phrase pattern matches and the text has no "@"
RoadOnly(k) ==
  /\ TextHas(k, "on the road against the lakers")
  /\ \A n \in DOMAIN location_patterns : ~PhraseMatches(RoundText(k), n)
  /\ ~TextHas(k, "@")

\* the location of every GameResult of the round is the one given
EmittedLocation(round, location) ==
  \A i \in DOMAIN round.appended : round.appended[i].location = location

\* C12: location resolution on text containing "hosting the Lakers" (and no
\* earlier-listed location phrase) returns "Home", and on text whose only
\* location wording is "on the road against the Lakers" returns "Away".
C12_HostingHomeRoadAway ==
  \A k \in AnalysedRounds :
    /\ HostingFirst(k)
         => /\ extracted.rounds[k].found.location = Some("Home")
            /\ EmittedLocation(extracted.rounds[k], "Home")
    /\ RoadOnly(k)
         => /\ extracted.rounds[k].found.location = Some("Away")
            /\ EmittedLocation(extracted.rounds[k], "Away")

\* C12, amended: location resolution on text containing "hosting the Lakers"
\* (and no earlier-listed location phrase) returns "Home"; on text whose only
\* location wording is "on the road against the Lakers" no location is found
\* and a GameResult gets the location "Unknown", the away pattern asking for
\* "played", "playing" or "game" before "on the road".
C12_HostingHomeRoadUnknown ==
  \A k \in AnalysedRounds :
    /\ HostingFirst(k)
         => /\ extracted.rounds[k].found.location = Some("Home")
            /\ EmittedLocation(extracted.rounds[k], "Home")
    /\ RoadOnly(k)
         => /\ extracted.rounds[k].found.location = None
            /\ EmittedLocation(extracted.rounds[k], "Unknown")

\* a GameResult of a text whose only location wording is "on the road against
\* the Lakers", with the location "Unknown"
C12_RoadGameUnknown ==
  \E k \in AnalysedRounds :
    /\ RoadOnly(k)
    /\ extracted.returned # <<>>
    /\ extracted.returned[1].location = "Unknown"
    /\ extracted.rounds[k].appended = extracted.returned

----------------------------------------------------------------------------
\* the call returned a list
Returned(call) == call.called /\ ~call.raised

\* C13: running extract_game_results twice on an identical article list, with
\* or without an intervening cache hit, yields identical GameResult sequences:
\* of two calls in succession that were passed the same list and returned, the
\* later returns what the earlier returned.
C13_SameArticlesSameResults ==
  [][(Returned(extracted) /\ Returned(extracted')
        /\ extracted'.articles = extracted.articles)
       => extracted'.returned = extracted.returned]_vars

\* a call that was served the cached results of another article list: the next
\* call on its list that finds the cache expired returns other results
C13_CachedRunNotRepeatable ==
  /\ Returned(extracted) /\ extracted.from_cache
  /\ article_cache = extracted.articles
  /\ ~ComputeResults(extracted.articles).raised
  /\ ComputeResults(extracted.articles).game_results # extracted.returned
  /\ ComputeResults(extracted.articles).game_results # <<>>
  /\ now < MaxTime

----------------------------------------------------------------------------
\* the rounds whose score loop stopped at pattern 4
Pattern4Rounds == {k \in MatchedRounds : extracted.rounds[k].found.pattern_num = 4}

\* the groups of pattern 4 on the text of round k
Pattern4Groups(k) == Search(RoundText(k), pattern4).groups

\* the "Spurs vs X" form matched, not the "X vs Spurs" form
OwnTeamFirst(groups) == Truthy(groups[1])

\* the two numbers pattern 4 captured, in the order of the text
FirstNumber(groups) ==
  IF OwnTeamFirst(groups) THEN ParseInt(Val(groups[2])) ELSE ParseInt(Val(groups[5]))

SecondNumber(groups) ==
  IF OwnTeamFirst(groups) THEN ParseInt(Val(groups[3])) ELSE ParseInt(Val(groups[6]))

\* own and opp are the scores the round recorded for the two teams
ScoresAre(found, own, opp) ==
  found.spurs_score = Some(own) /\ found.opponent_score = Some(opp)

Pattern4Assigned(found, own_first, first, second, spurs_win, spurs_loss) ==
  /\ (~spurs_win /\ ~spurs_loss /\ own_first) => ScoresAre(found, first, second)
  /\ (~spurs_win /\ ~spurs_loss /\ ~own_first) => ScoresAre(found, second, first)
  /\ spurs_win => ScoresAre(found, Max2(first, second), Min2(first, second))
  /\ (~spurs_win /\ spurs_loss) => ScoresAre(found, Min2(first, second), Max2(first, second))

\* C14: when pattern 4 is the matching pattern and the text contains neither
\* "spurs win" nor "spurs loss", the first captured number goes to the team
\* named first in the matched fragment (the own team in the "Spurs vs X" form,
\* the opponent in the "X vs Spurs" form); when "spurs win" is present the own
\* team gets the larger number, and when only "spurs loss" is present the own
\* team gets the smaller number.
C14_Pattern4ScoreAssignment ==
  \A k \in Pattern4Rounds :
    Pattern4Assigned(extracted.rounds[k].found,
                     OwnTeamFirst(Pattern4Groups(k)),
                     FirstNumber(Pattern4Groups(k)),
                     SecondNumber(Pattern4Groups(k)),
                     TextHas(k, "spurs win"),
                     TextHas(k, "spurs loss"))

\* a GameResult of the "X vs Spurs" form with two different numbers and neither
\* phrase: the opponent has the first number
C14_OpponentNamedFirst ==
  \E k \in Pattern4Rounds :
    /\ ~OwnTeamFirst(Pattern4Groups(k))
    /\ ~TextHas(k, "spurs win") /\ ~TextHas(k, "spurs loss")
    /\ FirstNumber(Pattern4Groups(k)) < SecondNumber(Pattern4Groups(k))
    /\ extracted.rounds[k].found.opponent_score = Some(FirstNumber(Pattern4Groups(k)))
    /\ extracted.rounds[k].appended # <<>>
    /\ extracted.rounds[k].appended[1].result = "Win"

----------------------------------------------------------------------------
\* the rounds that took the fallback path on a text mentioning Los Angeles
LosAngelesRounds ==
  {k \in AnalysedRounds :
     ~extracted.rounds[k].found.matched /\ TextHas(k, "los angeles")}

\* the number of times the k-th text mentions the name
Mentions(k, name) == Count(Lower(RoundText(k)), name)

\* the team with the higher count, Clippers on a tie
HigherCount(clippers, lakers) == IF lakers > clippers THEN "Lakers" ELSE "Clippers"

ChosenByCount(opponent, clippers, lakers) ==
  /\ (clippers > 0 /\ lakers > 0) => opponent = Some(HigherCount(clippers, lakers))
  /\ (clippers > 0 /\ lakers = 0) => opponent = Some("Clippers")
  /\ (clippers = 0 /\ lakers > 0) => opponent = Some("Lakers")

\* C15: in the fallback path (no score pattern matched), for text that mentions
\* Los Angeles: if both Clippers and Lakers are mentioned the opponent chosen is
\* the one with the higher occurrence count in the text (Clippers on a tie),
\* and if only one of them is mentioned the opponent is that one.
C15_LosAngelesTeamByCount ==
  \A k \in LosAngelesRounds :
    ChosenByCount(extracted.rounds[k].found.opponent,
                  Mentions(k, "clippers"), Mentions(k, "lakers"))

\* a text that mentions the Lakers more often than the Clippers, and the
\* opponent chosen is the Clippers
C15_ClippersDespiteFewerMentions ==
  \E k \in LosAngelesRounds :
    /\ Mentions(k, "clippers") > 0
    /\ Mentions(k, "lakers") > Mentions(k, "clippers")
    /\ extracted.rounds[k].found.opponent = Some("Clippers")

----------------------------------------------------------------------------
\* "Spurs @ <opponent>" occurs in the text
AwayForm(text, opponent) == Search(text, vs_pattern(opponent)).matched

\* "<opponent> @ Spurs" occurs in the text
HomeForm(text, opponent) == Search(text, at_pattern(opponent)).matched

\* location is what the phrase patterns gave if one matched, and else what the
\* "@" forms give for the opponent, "Spurs @ <opponent>" being looked for first
ScheduleRule(location, phrase, opponent, text) ==
  /\ Truthy(phrase) => location = phrase
  /\ (~Truthy(phrase) /\ Truthy(opponent) /\ AwayForm(text, Val(opponent)))
       => location = Some("Away")
  /\ (~Truthy(phrase) /\ Truthy(opponent) /\ ~AwayForm(text, Val(opponent))
        /\ HomeForm(text, Val(opponent)))
       => location = Some("Home")
  /\ (~Truthy(phrase)
        /\ (~Truthy(opponent)
              \/ (~AwayForm(text, Val(opponent)) /\ ~HomeForm(text, Val(opponent)))))
       => location = None

\* C16: the "@" schedule-notation check is consulted only when no location
\* phrase pattern matched and an opponent is known: then "Spurs @ <opponent>"
\* gives "Away" and "<opponent> @ Spurs" gives "Home"; when no phrase matched
\* and either no opponent is known or neither "@" form occurs, the location is
\* "Unknown"; a phrase-pattern result is never overridden by the "@" check.
C16_ScheduleCheckAfterPhrases ==
  \A k \in AnalysedRounds :
    /\ ScheduleRule(extracted.rounds[k].found.location, LocationByPhrase(RoundText(k)),
                    extracted.rounds[k].found.opponent, RoundText(k))
    /\ EmittedLocation(extracted.rounds[k],
                       OrDefault(extracted.rounds[k].found.location, "Unknown"))

\* a text with a home phrase and "Spurs @ <opponent>": the location is "Home"
C16_PhraseKeptDespiteSchedule ==
  \E k \in AnalysedRounds :
    /\ LocationByPhrase(RoundText(k)) = Some("Home")
    /\ Truthy(extracted.rounds[k].found.opponent)
    /\ AwayForm(RoundText(k), Val(extracted.rounds[k].found.opponent))
    /\ extracted.rounds[k].found.location = Some("Home")

----------------------------------------------------------------------------
\* what fetch_and_parse_rss did with a failed request, given the cache it found
FailureOutcome(outcome, cache) ==
  /\ cache # <<>> => outcome = [how |-> "stale cache", raised |-> FALSE, articles |-> cache]
  /\ cache = <<>> => outcome.how = "error" /\ outcome.raised

\* C17: when a feed request in fetch_and_parse_rss fails, a non-empty
\* article_cache is returned and article_cache and last_fetch_time are left
\* unchanged; with an empty article_cache the error propagates to the caller and
\* the cache state is likewise unchanged.
C17_FailureLeavesCache ==
  [][fetched'.how \in {"stale cache", "error"}
       => /\ FailureOutcome(fetched', article_cache)
          /\ article_cache' = article_cache
          /\ last_fetch_time' = last_fetch_time]_vars

\* a failed request served the cached list, which had expired
C17_ExpiredListServed ==
  /\ fetched.how = "stale cache"
  /\ fetched.articles = article_cache /\ article_cache # <<>>
  /\ last_fetch_time # None
  /\ now - Val(last_fetch_time) >= CACHE_DURATION

----------------------------------------------------------------------------
\* the record has a decided result and a score line
Decided(record) ==
  /\ record.result \in {"Win", "Loss"}
  /\ record.score # "Score not found"
  /\ Len(record.score) > 6 /\ SubSeq(record.score, 1, 6) = "Spurs "

\* the record was built from the two integers a score pattern recovered
BuiltFromScores(record, found) ==
  /\ found.matched /\ found.pattern_num \in 1..4
  /\ found.spurs_score # None /\ found.opponent_score # None
  /\ record.score = "Spurs " \o FormatInt(Val(found.spurs_score)) \o ", "
                      \o record.opponent \o " " \o FormatInt(Val(found.opponent_score))
  /\ Decided(record)

\* C18: every GameResult emitted by extract_game_results, and so every element
\* of game_results_cache, has a result in {"Win", "Loss"} and a score of the
\* form "Spurs X, <opponent> Y" built from two recovered integers; no emitted
\* record has the result "Unknown" or the score "Score not found", or comes
\* from the fallback path.
C18_EmittedBuiltFromScores ==
  /\ \A k \in DOMAIN extracted.rounds :
       \A i \in DOMAIN extracted.rounds[k].appended :
         BuiltFromScores(extracted.rounds[k].appended[i], extracted.rounds[k].found)
  /\ \A i \in DOMAIN extracted.returned : Decided(extracted.returned[i])
  /\ \A i \in DOMAIN game_results_cache : Decided(game_results_cache[i])

\* a text with the keyword "spurs win" and a score the Spurs lost by: the
\* record emitted and cached is the one of the score
C18_ScoreNotKeyword ==
  \E k \in AnalysedRounds :
    /\ TextHas(k, "spurs win")
    /\ extracted.rounds[k].appended # <<>>
    /\ extracted.returned = extracted.rounds[k].appended
    /\ game_results_cache = extracted.returned
    /\ extracted.returned[1].result = "Loss"
====
